---- MODULE Spec2Model ----
(***************************************************************************)
(* JD / resume matcher (src/app_patched2.py): text extraction, contact     *)
(* inference, criteria scoring and the batch loop of run_matching.         *)
(*                                                                         *)
(* Strings are sequences of one-character strings, so that the regular     *)
(* expressions, str.split, str.join, str.capitalize and the path functions *)
(* are computed character by character.                                    *)
(* Decimal numbers (float(m), exp_req) are exact decimals held as integers *)
(* scaled by Scale; percentages are held in hundredths.                    *)
(***************************************************************************)
EXTENDS Integers, Sequences, FiniteSets, TLC

VARIABLES
    files,     \* path -> what the libraries make of the file at that path
    paths,     \* run_matching's argument paths
    criteria,  \* keywords, exp_req, relax, domains, tools, skillsets
    pc,        \* where run_matching is
    i,         \* the loop's index (enumerate(paths, 1))
    total,     \* len(paths)
    text,      \* the loop's local: the text of the document just read
    records,   \* the records appended so far
    bar,       \* the value the progress bar shows
    progress,  \* the values passed to progress.progress, in order
    log,       \* the messages logged
    reports    \* per call that returned: its paths and the DataFrame returned

vars == <<files, paths, criteria, pc, i, total, text, records, bar, progress, log, reports>>

----------------------------------------------------------------------------
(* Bounds of the model.                                                    *)

\* documents in a batch
MaxDocs == 2
\* calls of run_matching on the same inputs
MaxRuns == 2
\* chunks a generated text is made of, per family of texts
MaxExpChunks == 4
MaxReqChunks == 2
MaxTermChunks == 3
MaxNameChunks == 3
\* terms in a generated keyword list
MaxTerms == 2

----------------------------------------------------------------------------
(* Characters and the classes the regular expressions use.                 *)

LowerCase == <<"a","b","c","d","e","f","g","h","i","j","k","l","m",
               "n","o","p","q","r","s","t","u","v","w","x","y","z">>
UpperCase == <<"A","B","C","D","E","F","G","H","I","J","K","L","M",
               "N","O","P","Q","R","S","T","U","V","W","X","Y","Z">>
DigitChars == <<"0","1","2","3","4","5","6","7","8","9">>

Range(s) == {s[k] : k \in DOMAIN s}

Lowers == Range(LowerCase)
Uppers == Range(UpperCase)
Digits == Range(DigitChars)
Alpha  == Lowers \cup Uppers
\* \w : letters, digits and the underscore
Word   == Alpha \cup Digits \cup {"_"}
\* \s : white space
Space  == {" ", "\t", "\n", "\r"}

\* str.lower() and str.upper() of one character
Lower(c) == IF c \in Uppers
            THEN LowerCase[CHOOSE k \in DOMAIN UpperCase : UpperCase[k] = c]
            ELSE c
Upper(c) == IF c \in Lowers
            THEN UpperCase[CHOOSE k \in DOMAIN LowerCase : LowerCase[k] = c]
            ELSE c

LowerStr(s) == [k \in DOMAIN s |-> Lower(s[k])]

\* int(c) of a digit character
DigitVal(c) == (CHOOSE k \in DOMAIN DigitChars : DigitChars[k] = c) - 1

RECURSIVE Pow10(_)
Pow10(n) == IF n = 0 THEN 1 ELSE 10 * Pow10(n - 1)

\* sep.join(parts)
RECURSIVE Join(_, _)
Join(sep, parts) ==
    IF parts = <<>> THEN <<>>
    ELSE IF Len(parts) = 1 THEN parts[1]
    ELSE parts[1] \o sep \o Join(sep, Tail(parts))

----------------------------------------------------------------------------
(* A backtracking matcher with Python's priorities: Ends gives the end     *)
(* positions of the matches of a pattern node at position p, the preferred *)
(* one first (greedy repetition, alternatives left to right).              *)

Ch(S)        == [t |-> "set", s |-> S]
AnyCh        == [t |-> "any"]
Cat(xs)      == [t |-> "cat", xs |-> xs]
Alt(xs)      == [t |-> "alt", xs |-> xs]
Opt(x)       == [t |-> "opt", x |-> x]
RepMin(x, n) == [t |-> "rep", x |-> x, lo |-> n]

\* a literal string; with re.IGNORECASE each letter matches both cases
Lit(s, ci) == Cat([k \in DOMAIN s |->
                    Ch(IF ci THEN {Lower(s[k]), Upper(s[k])} ELSE {s[k]})])

RECURSIVE Ends(_, _, _), CatFrom(_, _, _, _), CatOver(_, _, _, _, _),
          AltFrom(_, _, _, _), RepFrom(_, _, _, _, _), RepOver(_, _, _, _, _, _)

Ends(re, txt, p) ==
    CASE re.t = "set" -> IF p <= Len(txt) /\ txt[p] \in re.s THEN <<p + 1>> ELSE <<>>
      [] re.t = "any" -> IF p <= Len(txt) /\ txt[p] # "\n" THEN <<p + 1>> ELSE <<>>
      [] re.t = "cat" -> CatFrom(re.xs, 1, txt, p)
      [] re.t = "alt" -> AltFrom(re.xs, 1, txt, p)
      [] re.t = "opt" -> Ends(re.x, txt, p) \o <<p>>
      [] re.t = "rep" -> RepFrom(re.x, re.lo, 0, txt, p)

CatFrom(xs, k, txt, p) ==
    IF k > Len(xs) THEN <<p>>
    ELSE CatOver(Ends(xs[k], txt, p), 1, xs, k, txt)

CatOver(es, j, xs, k, txt) ==
    IF j > Len(es) THEN <<>>
    ELSE CatFrom(xs, k + 1, txt, es[j]) \o CatOver(es, j + 1, xs, k, txt)

AltFrom(xs, k, txt, p) ==
    IF k > Len(xs) THEN <<>>
    ELSE Ends(xs[k], txt, p) \o AltFrom(xs, k + 1, txt, p)

RepFrom(x, lo, n, txt, p) ==
    RepOver(Ends(x, txt, p), 1, x, lo, n, txt)
      \o (IF n >= lo THEN <<p>> ELSE <<>>)

RepOver(es, j, x, lo, n, txt) ==
    IF j > Len(es) THEN <<>>
    ELSE RepFrom(x, lo, n + 1, txt, es[j]) \o RepOver(es, j + 1, x, lo, n, txt)

\* The matches of the pattern items[k..] at p: each is the sequence of the end
\* positions of its items, the preferred match first.
RECURSIVE PathsFrom(_, _, _, _), PathsOver(_, _, _, _, _)
PathsFrom(items, k, txt, p) ==
    IF k > Len(items) THEN << <<>> >>
    ELSE PathsOver(Ends(items[k], txt, p), 1, items, k, txt)

PathsOver(es, j, items, k, txt) ==
    IF j > Len(es) THEN <<>>
    ELSE LET rest == PathsFrom(items, k + 1, txt, es[j])
         IN  [q \in DOMAIN rest |-> <<es[j]>> \o rest[q]]
               \o PathsOver(es, j + 1, items, k, txt)

NoMatch == [found |-> FALSE, start |-> 0, ends |-> <<>>]

\* Pattern.match at position p
MatchAt(items, txt, p) ==
    LET ps == PathsFrom(items, 1, txt, p)
    IN  IF ps = <<>> THEN NoMatch
        ELSE [found |-> TRUE, start |-> p, ends |-> ps[1]]

MatchEnd(m) == IF m.ends = <<>> THEN m.start ELSE m.ends[Len(m.ends)]

\* re.search from position p: the leftmost match
RECURSIVE SearchFrom(_, _, _)
SearchFrom(items, txt, p) ==
    IF p > Len(txt) + 1 THEN NoMatch
    ELSE LET m == MatchAt(items, txt, p)
         IN  IF m.found THEN m ELSE SearchFrom(items, txt, p + 1)

\* re.search(pattern, text) is not None
re_search(items, txt) == SearchFrom(items, txt, 1).found

\* the successive non-overlapping matches of re.findall / re.finditer
RECURSIVE FindIter(_, _, _)
FindIter(items, txt, p) ==
    LET m == SearchFrom(items, txt, p)
    IN  IF ~m.found THEN <<>>
        ELSE <<m>> \o FindIter(items, txt,
                               IF MatchEnd(m) > m.start THEN MatchEnd(m) ELSE m.start + 1)

Slice(txt, a, b) == SubSeq(txt, a, b - 1)

\* re.findall of a pattern without group: the matched substrings
findall(items, txt) ==
    LET ms == FindIter(items, txt, 1)
    IN  [k \in DOMAIN ms |-> Slice(txt, ms[k].start, MatchEnd(ms[k]))]

\* re.findall of a pattern whose first item is its only group: the group's text
findall_group1(items, txt) ==
    LET ms == FindIter(items, txt, 1)
    IN  [k \in DOMAIN ms |-> Slice(txt, ms[k].start, ms[k].ends[1])]

----------------------------------------------------------------------------
(* The patterns of the program.                                            *)

\* EMAIL_REGEX = r"[\w\.-]+@[\w\.-]+\.[a-zA-Z]{2,}"
EMAIL_REGEX ==
    << RepMin(Ch(Word \cup {".", "-"}), 1),
       Ch({"@"}),
       RepMin(Ch(Word \cup {".", "-"}), 1),
       Ch({"."}),
       RepMin(Ch(Alpha), 2) >>

\* PHONE_REGEX = r"\+?\d[\d \-]{7,}\d"
PHONE_REGEX ==
    << Opt(Ch({"+"})),
       Ch(Digits),
       RepMin(Ch(Digits \cup {" ", "-"}), 7),
       Ch(Digits) >>

\* r"(\d+(?:\.\d+)?)\s*(?:years|yrs|year)" with flags=re.IGNORECASE
EXP_REGEX ==
    << Cat(<< RepMin(Ch(Digits), 1),
              Opt(Cat(<< Ch({"."}), RepMin(Ch(Digits), 1) >>)) >>),
       RepMin(Ch(Space), 0),
       Alt(<< Lit(<<"y","e","a","r","s">>, TRUE),
              Lit(<<"y","r","s">>, TRUE),
              Lit(<<"y","e","a","r">>, TRUE) >>) >>

\* the characters re.escape puts a backslash before
SpecialChars == {"(", ")", "[", "]", "{", "}", "?", "*", "+", "-", "|", "^", "$",
                 "\\", ".", "&", "~", "#", " ", "\t", "\n", "\r"}

\* a variant of re_escape that leaves the term as it is
re_escape_none(s) == s

\* re.escape(term)
RECURSIVE re_escape(_)
re_escape(s) ==
    IF s = <<>> THEN <<>>
    ELSE (IF Head(s) \in SpecialChars THEN <<"\\", Head(s)>> ELSE <<Head(s)>>)
           \o re_escape(Tail(s))

\* re.compile(pattern, re.IGNORECASE) for the patterns re.escape produces and
\* the same text unescaped: a backslash makes the next character a literal,
\* an unescaped dot matches any character but a newline.
RECURSIVE re_compile(_)
re_compile(pat) ==
    IF pat = <<>> THEN <<>>
    ELSE IF Head(pat) = "\\" /\ Len(pat) >= 2
         THEN <<Ch({Lower(pat[2]), Upper(pat[2])})>> \o re_compile(Tail(Tail(pat)))
    ELSE IF Head(pat) = "."
         THEN <<AnyCh>> \o re_compile(Tail(pat))
    ELSE <<Ch({Lower(Head(pat)), Upper(Head(pat))})>> \o re_compile(Tail(pat))

\* re.search(re.escape(term), text, flags=re.IGNORECASE) is not None
term_found(term, txt) == re_search(re_compile(re_escape(term)), txt)

----------------------------------------------------------------------------
(* Library functions of strings and paths.                                 *)

\* the last index of character c in s, 0 when it has none (str.rfind + 1)
RFind(s, c) ==
    LET hits == {k \in DOMAIN s : s[k] = c}
    IN  IF hits = {} THEN 0 ELSE CHOOSE k \in hits : \A h \in hits : h <= k

\* a variant of basename that keeps the directory
basename_whole(path) == path

\* os.path.basename(path)
basename(path) == SubSeq(path, RFind(path, "/") + 1, Len(path))

\* os.path.splitext(path)[1]: from the last dot of the file name, unless the
\* name has only leading dots before it
splitext_ext(path) ==
    LET sep == RFind(path, "/")
        dot == RFind(path, ".")
    IN  IF dot > sep /\ \E k \in (sep + 1)..(dot - 1) : path[k] # "."
        THEN SubSeq(path, dot, Len(path))
        ELSE <<>>

\* s.split('@')[0]
BeforeAt(s) ==
    LET hits == {k \in DOMAIN s : s[k] = "@"}
    IN  IF hits = {} THEN s
        ELSE SubSeq(s, 1, (CHOOSE k \in hits : \A h \in hits : k <= h) - 1)

\* re.split(r'[\._]', s)
RECURSIVE re_split_dot_underscore(_)
re_split_dot_underscore(s) ==
    LET hits == {k \in DOMAIN s : s[k] \in {".", "_"}}
    IN  IF hits = {} THEN <<s>>
        ELSE LET k == CHOOSE h \in hits : \A g \in hits : h <= g
             IN  <<SubSeq(s, 1, k - 1)>> \o re_split_dot_underscore(SubSeq(s, k + 1, Len(s)))

\* str.capitalize(): first character upper case, the rest lower case
capitalize(s) ==
    [k \in DOMAIN s |-> IF k = 1 THEN Upper(s[k]) ELSE Lower(s[k])]

\* Numbers are held exactly, scaled by Scale: no numeral of the texts below has
\* more than FracDigits digits after its point.
FracDigits == MaxExpChunks - 2
Scale == Pow10(FracDigits)

RECURSIVE IntOf(_)
IntOf(ds) == IF ds = <<>> THEN 0 ELSE IntOf(SubSeq(ds, 1, Len(ds) - 1)) * 10 + DigitVal(ds[Len(ds)])

\* float(m) of a numeral \d+(\.\d+)?, scaled by Scale
float(m) ==
    LET dot  == RFind(m, ".")
        ip   == IF dot = 0 THEN m ELSE SubSeq(m, 1, dot - 1)
        fp   == IF dot = 0 THEN <<>> ELSE SubSeq(m, dot + 1, Len(m))
    IN  IntOf(ip) * Scale + IntOf(fp) * Pow10(FracDigits - Len(fp))

\* max(xs) of a non-empty sequence
SeqMax(xs) == CHOOSE v \in Range(xs) : \A w \in Range(xs) : w <= v

\* the integer nearest to a / b (b > 0, a >= 0), a tie going to the even one,
\* as round() rounds
RoundHalfEven(a, b) ==
    LET q == a \div b
        r == a % b
    IN  IF 2 * r < b THEN q
        ELSE IF 2 * r > b THEN q + 1
        ELSE IF q % 2 = 0 THEN q ELSE q + 1

----------------------------------------------------------------------------
(* extract_text_from_file.  A file is what the libraries make of its bytes:*)
(*   pdf   what pdfminer's extract_text does: its text, or an exception    *)
(*   docx  what docx.Document does: the paragraphs' texts, or an exception *)
(*   zip   what zipfile / ElementTree do: whether the bytes are an archive,*)
(*         whether it has word/document.xml, whether that parses, and the  *)
(*         (tag, text) of its elements in document order                   *)

Returned(v) == [raised |-> FALSE, exc |-> "", value |-> v]
Raised(e)   == [raised |-> TRUE,  exc |-> e,  value |-> <<>>]

\* a variant of DocxFallback that collects the text of every element
DocxFallback_every_tag(f) ==
    IF ~f.zip.ok THEN Raised("BadZipFile")
    ELSE IF ~f.zip.hasDocument THEN Raised("KeyError")
    ELSE IF ~f.zip.xmlOk THEN Raised("ParseError")
    ELSE LET RECURSIVE Collect(_)
             Collect(nodes) ==
                 IF nodes = <<>> THEN <<>>
                 ELSE (IF Head(nodes).text # <<>> THEN Head(nodes).text \o <<" ">> ELSE <<>>)
                        \o Collect(Tail(nodes))
         IN  Returned(Collect(f.zip.nodes))

\* lines 36-44: the except branch of the structured reader
DocxFallback(f) ==
    IF ~f.zip.ok THEN Raised("BadZipFile")
    ELSE IF ~f.zip.hasDocument THEN Raised("KeyError")
    ELSE IF ~f.zip.xmlOk THEN Raised("ParseError")
    ELSE LET RECURSIVE Collect(_)
             Collect(nodes) ==
                 IF nodes = <<>> THEN <<>>
                 ELSE LET node == Head(nodes)
                          n    == Len(node.tag)
                          isT  == \/ (n >= 2 /\ SubSeq(node.tag, n - 1, n) = <<"}", "t">>)
                                  \/ node.tag = <<"t">>
                      IN  (IF isT /\ node.text # <<>> THEN node.text \o <<" ">> ELSE <<>>)
                            \o Collect(Tail(nodes))
         IN  Returned(Collect(f.zip.nodes))

\* lines 29-44: the body of the try statement; falling through leaves no value
ExtractBody(path, f) ==
    LET ext == LowerStr(splitext_ext(path))
    IN  IF ext = <<".", "p", "d", "f">>
        THEN IF f.pdf.ok THEN Returned(f.pdf.text) ELSE Raised("PDFSyntaxError")
        ELSE IF ext = <<".", "d", "o", "c", "x">>
        THEN IF f.docx.ok
             THEN Returned(Join(<<"\n">>, f.docx.paragraphs))
             ELSE DocxFallback(f)
        ELSE Returned(<<>>)

Warning(path, e) == [level |-> "WARNING", file |-> basename(path), exc |-> e]

\* a variant of extract_text_from_file whose handler is missing: an exception
\* of the body leaves the function
extract_text_from_file_uncaught(path, f) ==
    LET b == ExtractBody(path, f)
    IN  IF b.raised
        THEN [text |-> <<>>, warnings |-> <<>>, escaped |-> TRUE]
        ELSE [text |-> b.value, warnings |-> <<>>, escaped |-> FALSE]

\* extract_text_from_file(path): the text returned, the warnings logged, and
\* whether an exception leaves the function
extract_text_from_file(path, f) ==
    LET b == ExtractBody(path, f)
    IN  IF b.raised
        THEN [text |-> <<>>, warnings |-> <<Warning(path, b.exc)>>, escaped |-> FALSE]
        ELSE [text |-> b.value, warnings |-> <<>>, escaped |-> FALSE]

----------------------------------------------------------------------------
(* extract_contacts                                                        *)

\* line 54-56: the name inferred from an email
NameFromEmail(email) ==
    LET user  == BeforeAt(email)
        parts == re_split_dot_underscore(user)
        kept  == SelectSeq(parts, LAMBDA p : p # <<>>)
    IN  Join(<<" ">>, [k \in DOMAIN kept |-> capitalize(kept[k])])

\* a variant of NameEmail that takes the last email
NameEmail_last(emails) == emails[Len(emails)]

\* the email the name is taken from: emails[0]
NameEmail(emails) == emails[1]

extract_contacts(txt) ==
    LET emails == findall(EMAIL_REGEX, txt)
        phones == findall(PHONE_REGEX, txt)
        name   == IF emails # <<>> THEN NameFromEmail(NameEmail(emails)) ELSE <<>>
    IN  [name |-> name,
         emails |-> Join(<<",", " ">>, emails),
         phones |-> Join(<<",", " ">>, phones)]

----------------------------------------------------------------------------
(* run_matching: the scoring of one text (lines 67-77)                     *)

\* exp_req: None, or a number of years (scaled)
None     == [isNone |-> TRUE,  v |-> 0]
Years(v) == [isNone |-> FALSE, v |-> v]

\* a variant of Experience that takes the first number stated
Experience_first(txt) ==
    LET ms       == findall_group1(EXP_REGEX, txt)
        exp_nums == [k \in DOMAIN ms |-> float(ms[k])]
    IN  IF exp_nums # <<>> THEN exp_nums[1] ELSE 0

\* a variant of Experience whose numbers are not reset between documents
Experience_carried(txt) ==
    LET ms       == findall_group1(EXP_REGEX, txt)
        exp_nums == [k \in DOMAIN ms |-> float(ms[k])]
                      \o [k \in DOMAIN records |-> records[k].Experience_Years]
    IN  IF exp_nums # <<>> THEN SeqMax(exp_nums) ELSE 0

\* lines 67-68
Experience(txt) ==
    LET ms       == findall_group1(EXP_REGEX, txt)
        exp_nums == [k \in DOMAIN ms |-> float(ms[k])]
    IN  IF exp_nums # <<>> THEN SeqMax(exp_nums) ELSE 0

\* [t for t in terms if re.search(re.escape(t), text, flags=re.IGNORECASE)]
Matched(terms, txt) == SelectSeq(terms, LAMBDA t : term_found(t, txt))

\* a variant of MatchPct that divides by the size of all four lists
MatchPct_all_lists(matched_kw, c) ==
    IF c.keywords # <<>>
    THEN RoundHalfEven(Len(matched_kw) * 100 * 100,
                       Len(c.keywords) + Len(c.domains) + Len(c.tools) + Len(c.skillsets))
    ELSE 0

\* line 70: round(len(matched_kw)/len(keywords)*100, 2) if keywords else 0.0,
\* in hundredths
MatchPct(matched_kw, c) ==
    IF c.keywords # <<>>
    THEN RoundHalfEven(Len(matched_kw) * 100 * 100, Len(c.keywords))
    ELSE 0

\* a variant of ExpOk that needs more than the threshold
ExpOk_strict(experience, exp_req, relax) ==
    IF ~exp_req.isNone
    THEN LET req == IF relax /\ exp_req.v > 0 THEN exp_req.v - 1 * Scale ELSE exp_req.v
         IN  experience > req
    ELSE TRUE

\* lines 74-77
ExpOk(experience, exp_req, relax) ==
    IF ~exp_req.isNone
    THEN LET req == IF relax /\ exp_req.v > 0 THEN exp_req.v - 1 * Scale ELSE exp_req.v
         IN  experience >= req
    ELSE TRUE

\* lines 66-91: the record of one document, from its extracted text
MakeRecord(path, txt, c) ==
    LET experience == Experience(txt)
        matched_kw == Matched(c.keywords, txt)
        contacts   == extract_contacts(txt)
    IN  [Filename         |-> basename(path),
         Name             |-> contacts.name,
         Email            |-> contacts.emails,
         Phone            |-> contacts.phones,
         Domain           |-> Join(<<";">>, Matched(c.domains, txt)),
         Tools            |-> Join(<<";">>, Matched(c.tools, txt)),
         Skillset         |-> Join(<<";">>, Matched(c.skillsets, txt)),
         Experience_Years |-> experience,
         Experience_Match |-> ExpOk(experience, c.exp_req, c.relax),
         Matched_Keywords |-> Join(<<";">>, matched_kw),
         Match_Percentage |-> MatchPct(matched_kw, c)]

----------------------------------------------------------------------------
(* run_matching as a state machine                                         *)

Frac(a, b) == [num |-> a, den |-> b]

Reverse(s) == [k \in DOMAIN s |-> s[Len(s) + 1 - k]]

\* lines 61-64: run_matching is entered with the list arg of paths; the locals
\* of a call start afresh
Enter(arg) ==
    /\ paths' = arg
    /\ total' = Len(arg)
    /\ log' = Append(log, [level |-> "INFO", file |-> <<>>, exc |-> ""])
    /\ bar' = Frac(0, 1)
    /\ progress' = <<>>
    /\ records' = <<>>
    /\ text' = <<>>
    /\ i' = 0
    /\ pc' = "loop"
    /\ UNCHANGED <<files, criteria, reports>>

\* run_matching(paths, ...) is called
Call ==
    /\ pc = "idle"
    /\ Enter(paths)

\* it is called again with the same criteria and the same documents, in the
\* same order or in the reverse order
CallAgain ==
    /\ pc = "done"
    /\ Len(reports) < MaxRuns
    /\ \E arg \in {paths, Reverse(paths)} : Enter(arg)

\* the index the loop gives the next document
NextIndex == i + 1

\* lines 65-91: one document is read, scored and its record appended
Iterate ==
    /\ pc = "loop"
    /\ i < total
    /\ LET path == paths[i + 1]
           got  == extract_text_from_file(path, files[path])
       IN  /\ i' = NextIndex
           /\ log' = log \o got.warnings
           /\ IF got.escaped
              THEN /\ pc' = "crashed"
                   /\ UNCHANGED <<text, records>>
              ELSE /\ text' = got.text
                   /\ records' = Append(records, MakeRecord(path, got.text, criteria))
                   /\ pc' = "progress"
    /\ UNCHANGED <<files, paths, criteria, total, bar, progress, reports>>

\* a variant of ProgressValue counting the documents from 0
ProgressValue_zero_based(idx, n) == Frac(idx - 1, n)

\* i/total
ProgressValue(idx, n) == Frac(idx, n)

\* line 92: progress.progress(i/total)
Progress ==
    /\ pc = "progress"
    /\ progress' = Append(progress, ProgressValue(i, total))
    /\ bar' = ProgressValue(i, total)
    /\ pc' = "loop"
    /\ UNCHANGED <<files, paths, criteria, i, total, text, records, log, reports>>

\* line 93: return pd.DataFrame(records)
Return ==
    /\ pc = "loop"
    /\ i >= total
    /\ reports' = Append(reports, [paths |-> paths, records |-> records])
    /\ pc' = "done"
    /\ UNCHANGED <<files, paths, criteria, i, total, text, records, bar, progress, log>>

NextOnce == Call \/ Iterate \/ Progress \/ Return
Next == Call \/ Iterate \/ Progress \/ Return \/ CallAgain

----------------------------------------------------------------------------
(* Inputs.                                                                 *)

\* all sequences of at most n elements of S
RECURSIVE SeqsUpTo(_, _)
SeqsUpTo(S, n) ==
    IF n = 0 THEN {<<>>}
    ELSE LET shorter == SeqsUpTo(S, n - 1)
         IN  shorter \cup {<<x>> \o s : x \in S, s \in {t \in shorter : Len(t) = n - 1}}

\* all concatenations of at most n chunks of pool
RECURSIVE ChunkTexts(_, _)
ChunkTexts(pool, n) ==
    IF n = 0 THEN {<<>>}
    ELSE LET shorter == ChunkTexts(pool, n - 1)
         IN  shorter \cup {c \o s : c \in pool, s \in shorter}

NoPdf  == [ok |-> FALSE, text |-> <<>>]
NoDocx == [ok |-> FALSE, paragraphs |-> <<>>]
NoZip  == [ok |-> FALSE, hasDocument |-> FALSE, xmlOk |-> FALSE, nodes |-> <<>>]
Pdf(t)      == [pdf |-> [ok |-> TRUE, text |-> t], docx |-> NoDocx, zip |-> NoZip]
Broken      == [pdf |-> NoPdf, docx |-> NoDocx, zip |-> NoZip]
Docx(ps, ns) ==
    [pdf |-> NoPdf, docx |-> [ok |-> TRUE, paragraphs |-> ps],
     zip |-> [ok |-> TRUE, hasDocument |-> TRUE, xmlOk |-> TRUE, nodes |-> ns]]
Archive(has, okXml, ns) ==
    [pdf |-> NoPdf, docx |-> NoDocx,
     zip |-> [ok |-> TRUE, hasDocument |-> has, xmlOk |-> okXml, nodes |-> ns]]

Node(tag, t) == [tag |-> tag, text |-> t]
W(name) == <<"{", "w", "}">> \o name

TmpDir == <<"/", "t", "m", "p", "/">>

PathA == TmpDir \o <<"a", ".", "p", "d", "f">>
PathB == TmpDir \o <<"b", ".", "P", "D", "F">>
PathC == TmpDir \o <<"c", ".", "d", "o", "c", "x">>
PathD == TmpDir \o <<"d", ".", "1", ".", "D", "o", "c", "x">>
PathE == TmpDir \o <<"e", ".", "d", "o", "c", "x">>
PathF == TmpDir \o <<"f", ".", "d", "o", "c", "x">>
PathG == TmpDir \o <<"g", ".", "d", "o", "c", "x">>
PathH == TmpDir \o <<"h", ".", "t", "x", "t">>
PathI == TmpDir \o <<".", "p", "d", "f">>

TextA == <<"a","n","n","_","l","e","e","@","x",".","i","o"," ","6"," ","Y","e","a","r","s"," ","T","C","L">>
ParasC == << <<"t","c","l">>, <<"4",".","5","y","r","s">> >>
NodesC == << Node(W(<<"t">>), <<"6","y","r","s">>) >>
NodesD == << Node(W(<<"p">>), <<>>),
             Node(W(<<"t">>), <<"t","c","l">>),
             Node(W(<<"r","t">>), <<"9","y","r","s">>),
             Node(W(<<"t">>), <<>>),
             Node(<<"t">>, <<"5","y","r","s">>),
             Node(<<"a","t">>, <<"8","y","r","s">>) >>

\* the files of the batch specification
Catalogue ==
    (PathA :> Pdf(TextA)) @@ (PathB :> Broken) @@ (PathC :> Docx(ParasC, NodesC)) @@
    (PathD :> Archive(TRUE, TRUE, NodesD)) @@ (PathE :> Broken) @@
    (PathF :> Archive(FALSE, FALSE, <<>>)) @@ (PathG :> Archive(TRUE, FALSE, <<>>)) @@
    (PathH :> Pdf(TextA)) @@ (PathI :> Pdf(TextA))

Half(h) == Years(h * (Scale \div 2))

CriteriaA ==
    [keywords  |-> << <<"t","c","l">>, <<"V","e","r","i","l","o","g">>, <<"T","C","L">> >>,
     exp_req   |-> Half(10), relax |-> TRUE,
     domains   |-> << <<"V","L","S","I">> >>,
     tools     |-> <<>>,
     skillsets |-> << <<"y","e","a","r">>, <<"t","c","l">> >>]
CriteriaB ==
    [keywords  |-> <<>>,
     exp_req   |-> None, relax |-> FALSE,
     domains   |-> <<>>, tools |-> <<>>, skillsets |-> <<>>]

InitRun ==
    /\ pc = "idle"
    /\ i = 0
    /\ total = 0
    /\ text = <<>>
    /\ records = <<>>
    /\ bar = Frac(0, 1)
    /\ progress = <<>>
    /\ log = <<>>
    /\ reports = <<>>

Init ==
    /\ files = Catalogue
    /\ paths \in SeqsUpTo(DOMAIN Catalogue, MaxDocs)
    /\ criteria \in {CriteriaA, CriteriaB}
    /\ InitRun

Spec == Init /\ [][Next]_vars

----------------------------------------------------------------------------
(* Specifications of one document whose text is drawn from a family.       *)

GenPath == TmpDir \o <<"r", ".", "p", "d", "f">>

InitGen(texts, crits) ==
    /\ files \in {GenPath :> Pdf(t) : t \in texts}
    /\ paths = <<GenPath>>
    /\ criteria \in crits
    /\ InitRun

NoTerms(req, rx) ==
    [keywords |-> <<>>, exp_req |-> req, relax |-> rx,
     domains |-> <<>>, tools |-> <<>>, skillsets |-> <<>>]

\* texts of numerals, white space and units
ExpPool == { <<"4">>, <<"5">>, <<".">>, <<" ">>, <<"Y","r","s">>, <<"y","e","a","R">> }
ExpScenarios ==
    { <<"6"," ","y","e","a","r","s">>,
      <<"1"," ","y","e","a","r",","," ","1","2","\n","Y","E","A","R","S">>,
      <<"0",".","5","\t","y","e","a","r","s","3","y","r","s">>,
      <<"1","0","y","e","a","r","9",".","5"," ","y","r","s">>,
      <<"7"," ","y","e","a","r","l","y"," ","8"," ","y","e","a">> }
ExpTexts == ChunkTexts(ExpPool, MaxExpChunks) \cup ExpScenarios

InitExp == InitGen(ExpTexts, {NoTerms(Half(10), FALSE)})
SpecExp == InitExp /\ [][NextOnce]_vars

\* texts stating an experience around the thresholds
ReqPool == { <<"4"," ","y","r","s">>,
             <<"4",".","5"," ","y","e","a","r","s"," ","o","f">>,
             <<"5","y","e","a","r">>,
             <<"3",".","5">>,
             <<" ","x"," ">> }
ReqTexts == ChunkTexts(ReqPool, MaxReqChunks)
ReqCriteria ==
    {NoTerms(req, rx) : req \in {None, Half(0), Half(1), Half(9), Half(10), Half(11)},
                        rx \in BOOLEAN}

InitReq == InitGen(ReqTexts, ReqCriteria)
SpecReq == InitReq /\ [][NextOnce]_vars

\* texts and terms of letters in both cases and the dot
TermPool == { <<"a">>, <<"B">>, <<".">> }
TermTexts == ChunkTexts(TermPool, MaxTermChunks)
TermSet == { <<"a",".","b">>, <<"b">>, <<".">> }
TermLists == SeqsUpTo(TermSet, MaxTerms)

\* the four lists differ from each other and follow from the keyword list
TermCriteria ==
    {[keywords |-> ks, exp_req |-> None, relax |-> FALSE,
      domains |-> Reverse(ks),
      tools |-> IF ks = <<>> THEN << <<"a">> >> ELSE Tail(ks),
      skillsets |-> ks \o << <<"A","B">> >>] : ks \in TermLists}

InitTerms == InitGen(TermTexts, TermCriteria)
SpecTerms == InitTerms /\ [][NextOnce]_vars

\* texts of email addresses and their pieces
NamePool == { <<"j","o","@","x",".","i","o">>, <<" ">>, <<"A","l","_","b">>,
              <<"@","x",".","i","o">>, <<".">>, <<"m","C">> }
ScenarioJane ==
    <<"C","o","n","t","a","c","t",":"," ","j","a","n","e",".","d","o","e","@",
      "e","x","a","m","p","l","e",".","c","o","m",","," ","V","L","S","I"," ",
      "e","n","g","i","n","e","e","r"," ","w","i","t","h"," ","V","e","r","i",
      "l","o","g",","," ","6"," ","y","e","a","r","s"," ","e","x","p","e","r",
      "i","e","n","c","e",".">>
NameScenarios ==
    { ScenarioJane,
      <<"j","o","@","x",".","i","o"," ","A","l","_","b","@","x",".","i","o">>,
      <<"A","l","_","b",".","m","C","@","x",".","i","o",",","j","o","@","x",".","i","o">>,
      <<"a",".",".","b","_","_","c","-","d","@","x",".","i","o">>,
      <<"h","r","@","c","o",".","u","k"," ","9","_","x","@","y",".","z","z">> }
NameTexts == ChunkTexts(NamePool, MaxNameChunks) \cup NameScenarios

CriteriaJane ==
    [keywords |-> << <<"V","e","r","i","l","o","g">>, <<"T","C","L">> >>,
     exp_req |-> Half(10), relax |-> FALSE,
     domains |-> << <<"V","L","S","I">> >>, tools |-> <<>>, skillsets |-> <<>>]

InitNames == InitGen(NameTexts, {CriteriaJane})
SpecNames == InitNames /\ [][NextOnce]_vars

----------------------------------------------------------------------------
(* What the properties below speak of.                                     *)

\* run_matching is inside its loop, or has returned
Running == pc \in {"loop", "progress"}
\* the record of document i has been appended and progress not yet emitted
JustRead == pc = "progress"

\* name is what follows the last '/' of path
IsBaseNameOf(name, path) ==
    /\ \A k \in DOMAIN name : name[k] # "/"
    /\ \/ path = name
       \/ \E d \in DOMAIN path : /\ path[d] = "/"
                                 /\ SubSeq(path, d + 1, Len(path)) = name

HasKind(path, kind) == LowerStr(splitext_ext(path)) = kind
IsPdf(path)  == HasKind(path, <<".", "p", "d", "f">>)
IsDocx(path) == HasKind(path, <<".", "d", "o", "c", "x">>)

FallbackWorks(f) == f.zip.ok /\ f.zip.hasDocument /\ f.zip.xmlOk

\* the extraction of the file at path fails
Fails(path) ==
    \/ IsPdf(path) /\ ~files[path].pdf.ok
    \/ IsDocx(path) /\ ~files[path].docx.ok /\ ~FallbackWorks(files[path])

\* the number of documents among paths[1..n] whose extraction fails
FailCount(n) == Cardinality({k \in 1..n : Fails(paths[k])})

EmptyRow(r) ==
    /\ r.Name = <<>> /\ r.Email = <<>> /\ r.Phone = <<>>
    /\ r.Domain = <<>> /\ r.Tools = <<>> /\ r.Skillset = <<>>
    /\ r.Matched_Keywords = <<>>
    /\ r.Experience_Years = 0
    /\ r.Match_Percentage = 0

\* C1: run_matching returns one record per input document, in input order, the
\* i-th one named after the base name of the i-th path; the empty list gives an
\* empty report; a document whose extraction fails has a row of empty and zero
\* fields.
C1_OneRecordPerDocument ==
    /\ pc # "crashed"
    /\ Running \/ pc = "done" => Len(records) = i
    /\ Len(records) <= Len(paths)
    /\ \A k \in DOMAIN records :
          /\ IsBaseNameOf(records[k].Filename, paths[k])
          /\ Fails(paths[k]) => EmptyRow(records[k])
    /\ \A r \in DOMAIN reports : Len(reports[r].records) = Len(reports[r].paths)
    /\ pc = "done" => reports[Len(reports)] = [paths |-> paths, records |-> records]

C1_Witness ==
    /\ pc = "done"
    /\ Len(paths) = 2
    /\ paths[1] # paths[2]
    /\ Fails(paths[1])
    /\ ~Fails(paths[2])
    /\ Len(reports[1].records) = 2
    /\ ~EmptyRow(reports[1].records[2])

\* C2: no exception leaves extract_text_from_file; when the PDF extractor fails,
\* or the DOCX reader and then the archive fallback fail, the text is empty and
\* one warning naming the file is logged, and no warning is logged otherwise.
C2_ExtractionNeverRaises ==
    /\ pc # "crashed"
    /\ LET warnings == SelectSeq(log, LAMBDA e : e.level = "WARNING")
       IN  /\ Len(warnings) = Len(reports) * FailCount(Len(paths))
                                + (IF Running THEN FailCount(i) ELSE 0)
           /\ \A k \in DOMAIN warnings :
                 \E d \in DOMAIN paths : /\ Fails(paths[d])
                                         /\ IsBaseNameOf(warnings[k].file, paths[d])
    /\ JustRead /\ Fails(paths[i]) =>
          /\ text = <<>>
          /\ log[Len(log)].level = "WARNING"
          /\ IsBaseNameOf(log[Len(log)].file, paths[i])
    /\ JustRead /\ ~IsPdf(paths[i]) /\ ~IsDocx(paths[i]) => text = <<>>

C2_Witness ==
    /\ JustRead
    /\ IsDocx(paths[i])
    /\ files[paths[i]].zip.ok
    /\ ~files[paths[i]].zip.xmlOk
    /\ text = <<>>
    /\ log[Len(log)].level = "WARNING"

\* a/b < c/d, for positive b and d
FracLess(x, y) == x.num * y.den < y.num * x.den
FracEq(x, y)   == x.num * y.den = y.num * x.den

\* C8: over N >= 1 documents progress is emitted once per document, after the
\* document's record is appended; the k-th emission is k/N with k records in
\* the report, the emissions increase strictly, the last one is 1, and an
\* emission changes no record.
C8_ProgressPerDocument ==
    /\ [](/\ \A k \in DOMAIN progress : FracEq(progress[k], Frac(k, total))
          /\ \A k \in DOMAIN progress : \A l \in DOMAIN progress :
                k < l => FracLess(progress[k], progress[l])
          /\ JustRead => Len(records) = Len(progress) + 1
          /\ pc \in {"loop", "done"} => Len(progress) = Len(records)
          /\ pc = "done" => Len(progress) = Len(paths)
          /\ pc = "done" /\ Len(paths) >= 1 =>
                FracEq(progress[Len(progress)], Frac(1, 1)))
    /\ [][Len(progress') > Len(progress) =>
             /\ records' = records
             /\ Len(progress') = Len(progress) + 1
             /\ Len(records) = Len(progress')]_vars

C8_Witness ==
    /\ pc = "done"
    /\ Len(paths) = 2
    /\ Len(progress) = 2
    /\ progress[1] = Frac(1, 2)
    /\ progress[2] = Frac(2, 2)
    /\ Len(records) = 2

\* C9: a document's record depends on the document and the criteria only: the
\* same document has the same record wherever it stands in a batch and in
\* whatever order the batch is processed, and calling run_matching again on the
\* same inputs returns the same report.
C9_NoCrossDocumentState ==
    /\ Len(records) <= Len(paths)
    /\ \A k \in DOMAIN records : \A l \in DOMAIN records :
          paths[k] = paths[l] => records[k] = records[l]
    /\ \A r \in DOMAIN reports :
          /\ \A s \in DOMAIN reports :
                reports[r].paths = reports[s].paths => reports[r].records = reports[s].records
          /\ \A k \in DOMAIN reports[r].records : \A l \in DOMAIN records :
                reports[r].paths[k] = paths[l] => reports[r].records[k] = records[l]

C9_Witness ==
    /\ pc = "done"
    /\ Len(reports) = 2
    /\ Len(paths) = 2
    /\ reports[1].paths = <<paths[2], paths[1]>>
    /\ paths[1] # paths[2]
    /\ reports[1].records[1].Experience_Years > reports[1].records[2].Experience_Years
    /\ reports[1].records[2].Experience_Years > 0
    /\ reports[2].records[1] = reports[1].records[2]

IsTTag(tag) ==
    \/ tag = <<"t">>
    \/ Len(tag) >= 2 /\ tag[Len(tag)] = "t" /\ tag[Len(tag) - 1] = "}"

\* the non-empty texts of the 't' elements, in document order
Fragments(f) ==
    LET ts == SelectSeq(f.zip.nodes, LAMBDA n : IsTTag(n.tag) /\ n.text # <<>>)
    IN  [k \in DOMAIN ts |-> ts[k].text]

UsesFallback(path) == IsDocx(path) /\ ~files[path].docx.ok /\ FallbackWorks(files[path])

\* C10 as stated: the fallback's text is the fragments joined by single spaces.
C10_FallbackJoinsWithSeparator ==
    JustRead /\ UsesFallback(paths[i]) =>
        text = Join(<<" ">>, Fragments(files[paths[i]]))

\* C10, amended: the fallback runs only when the structured reader failed (a
\* document it reads gives its paragraphs joined by newlines), and the
\* fallback's text is every non-empty 't' fragment, in document order, each
\* followed by one space, the last one too.
C10_FallbackAppendsSpaces ==
    /\ JustRead /\ IsDocx(paths[i]) /\ files[paths[i]].docx.ok =>
          text = Join(<<"\n">>, files[paths[i]].docx.paragraphs)
    /\ JustRead /\ UsesFallback(paths[i]) =>
          LET frags == Fragments(files[paths[i]])
          IN  text = IF frags = <<>> THEN <<>> ELSE Join(<<" ">>, frags) \o <<" ">>

C10_Witness ==
    /\ JustRead
    /\ UsesFallback(paths[i])
    /\ Len(Fragments(files[paths[i]])) = 2
    /\ Len(files[paths[i]].zip.nodes) > 2
    /\ text # <<>>

----------------------------------------------------------------------------
(* Properties of the scoring of one text.                                  *)

\* the record of the document just read
Rec == records[i]

\* the threshold the experience is compared with
Threshold ==
    IF criteria.relax /\ criteria.exp_req.v > 0
    THEN criteria.exp_req.v - Scale
    ELSE criteria.exp_req.v

\* C3: Experience_Match is true when no minimum is configured; otherwise it is
\* true exactly when the measured years reach the minimum, lowered by one year
\* when relax is set and the minimum is positive.  With a minimum of 5 and 4.5
\* measured years it is true with relax and false without; with a minimum of 0
\* it is true.
C3_ExperienceSatisfaction ==
    \A k \in DOMAIN records :
        LET r == records[k]
        IN  /\ criteria.exp_req.isNone => r.Experience_Match
            /\ ~criteria.exp_req.isNone =>
                  (r.Experience_Match <=> r.Experience_Years >= Threshold)
            /\ criteria.exp_req = Half(10) /\ 2 * r.Experience_Years = 9 * Scale =>
                  (r.Experience_Match <=> criteria.relax)
            /\ criteria.exp_req = Half(0) => r.Experience_Match

C3_Witness ==
    /\ pc = "done"
    /\ criteria.exp_req = Half(10)
    /\ criteria.relax
    /\ records[1].Experience_Years = 4 * Scale
    /\ records[1].Experience_Match

\* term occurs in txt as a substring, letter case aside
ContainsCI(term, txt) ==
    \E a \in 1..(Len(txt) - Len(term) + 1) :
        \A k \in DOMAIN term : Lower(txt[a + k - 1]) = Lower(term[k])

\* the entries of terms that occur in txt, in the order of terms
Occurring(terms, txt) == SelectSeq(terms, LAMBDA t : ContainsCI(t, txt))

IsNumeral(txt, a, b) ==
    /\ a < b
    /\ \/ \A k \in a..(b - 1) : txt[k] \in Digits
       \/ \E d \in (a + 1)..(b - 2) :
             /\ txt[d] = "."
             /\ \A k \in a..(b - 1) : k # d => txt[k] \in Digits

\* at b: optional white space, then years, yrs or year in any letter case
UnitFollows(txt, b) ==
    \E e \in b..Len(txt) :
        /\ \A k \in b..(e - 1) : txt[k] \in Space
        /\ \/ e + 2 <= Len(txt) /\ LowerStr(SubSeq(txt, e, e + 2)) = <<"y","r","s">>
           \/ e + 3 <= Len(txt) /\ LowerStr(SubSeq(txt, e, e + 3)) = <<"y","e","a","r">>

\* the numbers of txt that a unit follows: whole numerals, not the tail of one
StatedYears(txt) ==
    { float(SubSeq(txt, a, b - 1)) :
        <<a, b>> \in { ab \in (1..Len(txt)) \X (1..(Len(txt) + 1)) :
                         /\ IsNumeral(txt, ab[1], ab[2])
                         /\ UnitFollows(txt, ab[2])
                         /\ \A c \in 1..(ab[1] - 1) : ~IsNumeral(txt, c, ab[2]) } }

\* C5: Experience_Years is the largest number of the text that years, yrs or
\* year follows after optional white space, in any letter case, and 0 when the
\* text has none; it is never negative.
C5_ExperienceIsMaximum ==
    JustRead =>
        LET stated == StatedYears(text)
        IN  /\ Rec.Experience_Years >= 0
            /\ stated = {} => Rec.Experience_Years = 0
            /\ stated # {} => /\ Rec.Experience_Years \in stated
                              /\ \A v \in stated : v <= Rec.Experience_Years

C5_Witness ==
    /\ JustRead
    /\ Cardinality(StatedYears(text)) = 2
    /\ Rec.Experience_Years = 5 * Scale
    /\ text[1] = "4"

\* the tokens of s between dots and underscores, empty ones left out, in order
TokenStarts(s) ==
    {a \in DOMAIN s : s[a] \notin {".", "_"} /\ (a = 1 \/ s[a - 1] \in {".", "_"})}
TokenAt(s, a) ==
    LET stops == {b \in a..Len(s) : b = Len(s) \/ s[b + 1] \in {".", "_"}}
    IN  SubSeq(s, a, CHOOSE b \in stops : \A c \in stops : b <= c)
Tokens(s) ==
    [n \in 1..Cardinality(TokenStarts(s)) |->
        TokenAt(s, CHOOSE a \in TokenStarts(s) :
                      Cardinality({x \in TokenStarts(s) : x < a}) = n - 1)]

LocalPart(email) ==
    SubSeq(email, 1, (CHOOSE k \in DOMAIN email : email[k] = "@") - 1)

FirstUpper(tok) == [k \in DOMAIN tok |-> IF k = 1 THEN Upper(tok[k]) ELSE tok[k]]
FirstUpperRestLower(tok) ==
    [k \in DOMAIN tok |-> IF k = 1 THEN Upper(tok[k]) ELSE Lower(tok[k])]

FoundEmails == findall(EMAIL_REGEX, text)
JaneDoe == <<"J","a","n","e"," ","D","o","e">>

\* C6 as stated: the name is the first email's local part split on '.' or '_',
\* each token with its first letter in upper case, the tokens joined by spaces.
C6_NameFirstLetterOnly ==
    JustRead /\ FoundEmails # <<>> =>
        LET toks == Tokens(LocalPart(FoundEmails[1]))
        IN  Rec.Name = Join(<<" ">>, [k \in DOMAIN toks |-> FirstUpper(toks[k])])

\* C6, amended: the name is empty when the text has no email; otherwise it is
\* the first email's local part split on '.' or '_', empty tokens left out, each
\* token with its first letter in upper case and its other letters in lower
\* case, the tokens joined by single spaces.  Later emails do not change it.
C6_NameFromFirstEmail ==
    JustRead =>
        /\ FoundEmails = <<>> => Rec.Name = <<>>
        /\ FoundEmails # <<>> =>
              LET toks == Tokens(LocalPart(FoundEmails[1]))
              IN  Rec.Name =
                    Join(<<" ">>, [k \in DOMAIN toks |-> FirstUpperRestLower(toks[k])])
        /\ text = ScenarioJane => Rec.Name = JaneDoe

C6_Witness ==
    /\ JustRead
    /\ Len(FoundEmails) = 2
    /\ FoundEmails[1] # FoundEmails[2]
    /\ Len(Tokens(LocalPart(FoundEmails[1]))) = 3
    /\ Rec.Name = <<"A","l"," ","B"," ","M","c">>

\* C7: each of the keyword, domain, tool and skill outputs holds exactly the
\* terms of its list that occur in the text as a literal substring, letter case
\* aside, in the order of the list; an empty list gives an empty output.
C7_LiteralTermMatching ==
    JustRead =>
        /\ Rec.Matched_Keywords = Join(<<";">>, Occurring(criteria.keywords, text))
        /\ Rec.Domain   = Join(<<";">>, Occurring(criteria.domains, text))
        /\ Rec.Tools    = Join(<<";">>, Occurring(criteria.tools, text))
        /\ Rec.Skillset = Join(<<";">>, Occurring(criteria.skillsets, text))
        /\ criteria.keywords = <<>> => Rec.Matched_Keywords = <<>>

C7_Witness ==
    /\ JustRead
    /\ text = <<"a", "B", "a">>
    /\ criteria.keywords = << <<"a",".","b">>, <<"b">> >>
    /\ Rec.Matched_Keywords = <<"b">>
    /\ Rec.Domain = <<"b">>
    /\ Rec.Skillset = <<"b", ";", "A", "B">>

====
